---- MODULE Spec2Model ----
(***************************************************************************)
(* Model of seq.py: Recaman's sequence, the twisted arcs between its       *)
(* consecutive terms, the tube swept along the resulting curve, and the    *)
(* .obj writer, as driven by main().                                       *)
(*                                                                         *)
(* Numbers.  Sequence terms, sample counts and vertex indices are exact    *)
(* integers.  Coordinates are floating point in the program; the model     *)
(* keeps a coordinate either as an integer-valued triple (kind "xyz") or   *)
(* as the parameters of the arc sample it is computed from (kind "arc"),   *)
(* and keeps of every computed vertex whether its coordinates are finite.  *)
(* The tube radii only scale the ring and are left out.                    *)
(***************************************************************************)
EXTENDS Integers, Sequences, FiniteSets, TLC

\* ---------------------------------------------------------------- bounds
MaxNegN == 1        \* values of n below 1: -MaxNegN..0
MaxN == 14          \* largest n of recemans_sequence on its own
MaxPipeN == 4       \* largest -n of a whole run of main
MaxArcRes == 2      \* largest --arc_resolution of a run of main
MaxTubeRes == 2     \* largest tube resolution
MaxArcEnd == 3      \* arc end points range over -MaxArcEnd..MaxArcEnd
MaxRes == 3         \* largest resolution of interpolate_arcs on its own
MaxCoord == 1       \* z of the curve points of tube_along_curve on its own
MaxCurveLen == 3    \* longest curve of tube_along_curve on its own
MaxOffset == 2      \* largest vertex_index_offset of tube_along_curve on its own

TwistFactors == {0, 2}   \* --twist_factor in tenths: 0.0 and the default 0.2

VARIABLES
  args,            \* parsed command line of main
  numpy_has_float, \* whether the installed numpy still has the alias np.float
  pc,              \* position of main
  i,               \* loop index of the loop main is in
  a,               \* recemans_sequence: running value
  seq,             \* recemans_sequence: the list built so far / main's seq
  curve,           \* main: concatenated arc samples
  vertex_list,     \* main: vertices of the mesh
  face_list,       \* main: faces of the mesh
  file,            \* the output file
  error,           \* the exception that ended main, "none" if none
  fn,              \* a function called on its own: name and arguments
  ret              \* its outcome

vars == <<args, numpy_has_float, pc, i, a, seq, curve, vertex_list, face_list,
          file, error, fn, ret>>

Abs(x) == IF x < 0 THEN -x ELSE x

\* int(num/den): truncation toward zero
Trunc(num, den) == IF num >= 0 THEN num \div den ELSE -((-num) \div den)

\* ------------------------------------------------- recemans_sequence
\* "x in seq" on a Python list
InList(x, s) == \E j \in 1..Len(s) : s[j] = x

\* faulty variant: the test for a negative candidate is lost
RecamanNextNoSign(av, iv, s) == IF InList(av - iv, s) THEN av + iv ELSE av - iv

\* faulty variant: the test for an already used candidate is lost
RecamanNextNoSeen(av, iv, s) == IF (av - iv) < 0 THEN av + iv ELSE av - iv

\* the body of the loop: the new value of a
RecamanNext(av, iv, s) ==
  IF (av - iv) < 0 \/ InList(av - iv, s) THEN av + iv ELSE av - iv

\* ------------------------------------------------- interpolate_arcs
\* faulty variant: k = int(r * resolution)
ArcKHalf(a0, a1, resolution) == Trunc(Abs(a1 - a0) * resolution, 2)

\* k = int(2 * r * resolution) with r = 0.5 * abs(a1 - a0); r is kept as
\* the fraction abs(a1 - a0) / 2
ArcK(a0, a1, resolution) == Trunc(2 * Abs(a1 - a0) * resolution, 2)

\* one sample: the arguments of the formulas for x, y and z
ArcSample(a0, a1, start_twist_degree, twist_factor, k, iv) ==
  [kind |-> "arc", a0 |-> a0, a1 |-> a1, i |-> iv,
   t |-> IF a0 > a1 THEN k - iv ELSE iv, k |-> k,
   start_twist |-> start_twist_degree, twist_factor |-> twist_factor]

\* faulty variant: the loop also samples the end point, i = k
InterpolateArcsInclusive(a0, a1, start_twist_degree, twist_factor, resolution) ==
  LET k == ArcK(a0, a1, resolution)
  IN [idx \in 1..(k + 1) |->
        ArcSample(a0, a1, start_twist_degree, twist_factor, k, idx - 1)]

InterpolateArcs(a0, a1, start_twist_degree, twist_factor, resolution) ==
  LET k == ArcK(a0, a1, resolution)
  IN [idx \in 1..k |->
        ArcSample(a0, a1, start_twist_degree, twist_factor, k, idx - 1)]

\* ------------------------------------------------- tube_along_curve
XYZ(x, y, z) == [kind |-> "xyz", x |-> x, y |-> y, z |-> z]

\* v = q - p; v /= norm(v); R = rotation_matrix_from_vectors(v, (0,0,1)):
\*   "nan"      p and q coincide: v = 0/0, every entry of R is NaN
\*   "anti"     v = (0,0,-1): c = -1, vx = 0, R = I + 0 + 0/0 is NaN
\*   "regular"  otherwise, R is a finite rotation
\* Two different arc samples of one curve never coincide and never lie
\* one exactly below the other on the number axis.
Tangent(p, q) ==
  IF p.kind = "xyz" /\ q.kind = "xyz"
  THEN IF q.x = p.x /\ q.y = p.y /\ q.z = p.z THEN "nan"
       ELSE IF q.x = p.x /\ q.y = p.y /\ q.z < p.z THEN "anti"
       ELSE "regular"
  ELSE IF p = q THEN "nan" ELSE "regular"

\* the ring of one curve point: p + c.dot(R) for every c of circle_xy
Ring(p, tangent, n) ==
  [j \in 1..n |-> [at |-> p, slot |-> j - 1, finite |-> (tangent = "regular")]]

\* the first loop, from iteration iv on: the rings it appends, in order;
\* iv is Python's i, so points[iv] here is points[i - 1] there
RECURSIVE VertexLoop(_, _, _)
VertexLoop(points, n, iv) ==
  IF iv >= Len(points) THEN <<>>
  ELSE Ring(points[iv], Tangent(points[iv], points[iv + 1]), n)
         \o VertexLoop(points, n, iv + 1)

\* faulty variant: the angular index is not wrapped
UnravelNoWrap(iv, j, u, v, n, offset) == (iv + u) * n + (j + v) + 1 + offset

\* faulty variant: the offset is not added
UnravelNoOffset(iv, j, u, v, n, offset) == (iv + u) * n + ((j + v) % n) + 1

\* the lambda of the face loop
Unravel(iv, j, u, v, n, offset) == (iv + u) * n + ((j + v) % n) + 1 + offset

\* the inner loop of the face loop, from j on: the faces it appends, in order
RECURSIVE FaceRow(_, _, _, _)
FaceRow(iv, j, n, offset) ==
  IF j >= n THEN <<>>
  ELSE LET fa == Unravel(iv, j, 0, 0, n, offset)
           fb == Unravel(iv, j, 1, 0, n, offset)
           fc == Unravel(iv, j, 1, 1, n, offset)
           fd == Unravel(iv, j, 0, 1, n, offset)
       IN << <<fa, fc, fb>>, <<fa, fd, fc>> >> \o FaceRow(iv, j + 1, n, offset)

\* the outer loop of the face loop, from i = iv on, for a curve of m points
RECURSIVE FaceLoop(_, _, _, _)
FaceLoop(m, n, offset, iv) ==
  IF iv >= m - 1 THEN <<>>
  ELSE FaceRow(iv, 0, n, offset) \o FaceLoop(m, n, offset, iv + 1)

TubeAlongCurve(points, resolution, vertex_index_offset) ==
  LET m == Len(points)
      body == VertexLoop(points, resolution, 1)
  IN IF m < 2
     THEN [err |-> "IndexError", vertex_list |-> <<>>, face_list |-> <<>>]
     ELSE [err |-> "none",
           vertex_list |->
             body \o Ring(points[m], Tangent(points[m - 1], points[m]), resolution),
           face_list |-> FaceLoop(m, resolution, vertex_index_offset, 0)]

\* ------------------------------------------------- main
RECURSIVE SeqMin(_)
SeqMin(s) ==
  IF Len(s) = 1 THEN s[1]
  ELSE LET r == SeqMin(Tail(s)) IN IF s[1] < r THEN s[1] ELSE r

RECURSIVE SeqMax(_)
SeqMax(s) ==
  IF Len(s) = 1 THEN s[1]
  ELSE LET r == SeqMax(Tail(s)) IN IF s[1] > r THEN s[1] ELSE r

NoFile == [exists |-> FALSE, lines |-> 0, closed |-> FALSE]

Pending == [status |-> "pending"]

Args == [n : (-MaxNegN)..MaxPipeN, twist_factor : TwistFactors,
         arc_resolution : 0..MaxArcRes, tube_resolution : 0..MaxTubeRes,
         number_axis : BOOLEAN]

\* state of main after parse_args, about to call recemans_sequence
Init ==
  /\ args \in Args
  /\ numpy_has_float \in BOOLEAN
  /\ pc = "seq"
  /\ i = 1
  /\ a = 0
  /\ seq = <<0>>
  /\ curve = <<>>
  /\ vertex_list = <<>>
  /\ face_list = <<>>
  /\ file = NoFile
  /\ error = "none"
  /\ fn = [name |-> "main"]
  /\ ret = Pending

Raise(e) ==
  /\ pc' = "failed"
  /\ error' = e

\* one iteration of the loop of recemans_sequence
SeqStep ==
  /\ pc = "seq"
  /\ i < args.n
  /\ a' = RecamanNext(a, i, seq)
  /\ seq' = Append(seq, a')
  /\ i' = i + 1
  /\ UNCHANGED <<args, numpy_has_float, pc, curve, vertex_list, face_list,
                 file, error, fn, ret>>

\* range(1, n) is exhausted: return seq; main enters its loop over the pairs
SeqReturn ==
  /\ pc = "seq"
  /\ i >= args.n
  /\ pc' = "arcs"
  /\ i' = 1
  /\ UNCHANGED <<args, numpy_has_float, a, seq, curve, vertex_list, face_list,
                 file, error, fn, ret>>

\* start_twist_degree of segment iv
StartTwist(iv, twist_factor) ==
  IF iv % 2 = 0 THEN <<"zero">> ELSE <<"pi_over", twist_factor>>

\* one iteration of main's loop over consecutive pairs of seq
ArcStep ==
  /\ pc = "arcs"
  /\ i < Len(seq)
  /\ IF i % 2 # 0 /\ args.twist_factor = 0
     THEN /\ Raise("ZeroDivisionError")
          /\ UNCHANGED <<i, curve>>
     ELSE /\ curve' = curve \o InterpolateArcs(seq[i], seq[i + 1],
                                 StartTwist(i, args.twist_factor),
                                 args.twist_factor, args.arc_resolution)
          /\ i' = i + 1
          /\ UNCHANGED <<pc, error>>
  /\ UNCHANGED <<args, numpy_has_float, a, seq, vertex_list, face_list,
                 file, fn, ret>>

ArcsDone ==
  /\ pc = "arcs"
  /\ i >= Len(seq)
  /\ pc' = "tube"
  /\ UNCHANGED <<args, numpy_has_float, i, a, seq, curve, vertex_list,
                 face_list, file, error, fn, ret>>

\* the tube along the curve
TubeMain ==
  /\ pc = "tube"
  /\ LET r == TubeAlongCurve(curve, args.tube_resolution, 0)
     IN IF r.err # "none"
        THEN /\ Raise(r.err)
             /\ UNCHANGED <<vertex_list, face_list>>
        ELSE /\ vertex_list' = r.vertex_list
             /\ face_list' = r.face_list
             /\ pc' = "axis"
             /\ UNCHANGED error
  /\ UNCHANGED <<args, numpy_has_float, i, a, seq, curve, file, fn, ret>>

\* the offset main passes for the number axis
AxisOffset(vl) == Len(vl)

\* the optional tube along the number axis
AxisPass ==
  /\ pc = "axis"
  /\ IF ~args.number_axis
     THEN /\ pc' = "save"
          /\ UNCHANGED <<vertex_list, face_list, error>>
     ELSE IF ~numpy_has_float
     THEN /\ Raise("AttributeError")
          /\ UNCHANGED <<vertex_list, face_list>>
     ELSE LET pa == XYZ(0, 0, SeqMin(seq))
              pb == XYZ(0, 0, SeqMax(seq))
              r == TubeAlongCurve(<<pa, pb>>, args.tube_resolution,
                                  AxisOffset(vertex_list))
          IN /\ vertex_list' = vertex_list \o r.vertex_list
             /\ face_list' = face_list \o r.face_list
             /\ pc' = "save"
             /\ UNCHANGED error
  /\ UNCHANGED <<args, numpy_has_float, i, a, seq, curve, file, fn, ret>>

\* save_obj: open(filename, 'w') creates or truncates the file, or fails
SaveOpen ==
  /\ pc = "save"
  /\ \E ok \in BOOLEAN :
       IF ok
       THEN /\ file' = [exists |-> TRUE, lines |-> 0, closed |-> FALSE]
            /\ pc' = "write"
            /\ UNCHANGED error
       ELSE /\ Raise("IOError")
            /\ UNCHANGED file
  /\ UNCHANGED <<args, numpy_has_float, i, a, seq, curve, vertex_list,
                 face_list, fn, ret>>

\* save_obj: the next "v" or "f" line is written, or the write fails and
\* the with statement closes the file as it is
SaveWrite ==
  /\ pc = "write"
  /\ file.lines < Len(vertex_list) + Len(face_list)
  /\ \E ok \in BOOLEAN :
       IF ok
       THEN /\ file' = [file EXCEPT !.lines = @ + 1]
            /\ UNCHANGED <<pc, error>>
       ELSE /\ Raise("IOError")
            /\ UNCHANGED file
  /\ UNCHANGED <<args, numpy_has_float, i, a, seq, curve, vertex_list,
                 face_list, fn, ret>>

\* save_obj: every line is written, the with statement closes the file
SaveClose ==
  /\ pc = "write"
  /\ file.lines = Len(vertex_list) + Len(face_list)
  /\ file' = [file EXCEPT !.closed = TRUE]
  /\ pc' = "done"
  /\ UNCHANGED <<args, numpy_has_float, i, a, seq, curve, vertex_list,
                 face_list, error, fn, ret>>

Next ==
  \/ SeqStep
  \/ SeqReturn
  \/ ArcStep
  \/ ArcsDone
  \/ TubeMain
  \/ AxisPass
  \/ SaveOpen
  \/ SaveWrite
  \/ SaveClose

Spec == Init /\ [][Next]_vars

\* ------------------------------------------------- recemans_sequence alone
InitSeq ==
  /\ args \in [n : (-MaxNegN)..MaxN, twist_factor : {2}, arc_resolution : {0},
               tube_resolution : {0}, number_axis : {FALSE}]
  /\ numpy_has_float = TRUE
  /\ pc = "seq"
  /\ i = 1
  /\ a = 0
  /\ seq = <<0>>
  /\ curve = <<>>
  /\ vertex_list = <<>>
  /\ face_list = <<>>
  /\ file = NoFile
  /\ error = "none"
  /\ fn = [name |-> "recemans_sequence"]
  /\ ret = Pending

NextSeq ==
  \/ SeqStep
  \/ SeqReturn

SpecSeq == InitSeq /\ [][NextSeq]_vars

\* ------------------------------------------------- functions called alone
NoMain ==
  /\ args = [n |-> 0, twist_factor |-> 2, arc_resolution |-> 0,
             tube_resolution |-> 0, number_axis |-> FALSE]
  /\ numpy_has_float = TRUE
  /\ pc = "idle"
  /\ i = 0
  /\ a = 0
  /\ seq = <<>>
  /\ curve = <<>>
  /\ vertex_list = <<>>
  /\ face_list = <<>>
  /\ file = NoFile
  /\ error = "none"

mainVars == <<args, numpy_has_float, pc, i, a, seq, curve, vertex_list,
              face_list, file, error>>

StartTwists == {<<"zero">>} \cup {<<"pi_over", tf>> : tf \in TwistFactors \ {0}}

InitArc ==
  /\ NoMain
  /\ fn \in [name : {"interpolate_arcs"}, a0 : -MaxArcEnd..MaxArcEnd,
             a1 : -MaxArcEnd..MaxArcEnd, start_twist_degree : StartTwists,
             twist_factor : TwistFactors, resolution : 0..MaxRes]
  /\ ret = Pending

CallArc ==
  /\ fn.name = "interpolate_arcs"
  /\ ret = Pending
  /\ ret' = [status |-> "returned",
             points |-> InterpolateArcs(fn.a0, fn.a1, fn.start_twist_degree,
                                        fn.twist_factor, fn.resolution)]
  /\ UNCHANGED <<mainVars, fn>>

NextArc == CallArc

SpecArc == InitArc /\ [][NextArc]_vars

Coords == 0..MaxCoord

Across == {0, 1}

GridPoints == {XYZ(x, y, z) : x \in Across, y \in Across, z \in Coords}

Curves == UNION {[1..m -> GridPoints] : m \in 1..MaxCurveLen}

InitTube ==
  /\ NoMain
  /\ fn \in [name : {"tube_along_curve"}, points : Curves,
             resolution : 1..MaxTubeRes, vertex_index_offset : 0..MaxOffset]
  /\ ret = Pending

CallTube ==
  /\ fn.name = "tube_along_curve"
  /\ ret = Pending
  /\ LET r == TubeAlongCurve(fn.points, fn.resolution, fn.vertex_index_offset)
     IN ret' = IF r.err = "none"
               THEN [status |-> "returned", vertex_list |-> r.vertex_list,
                     face_list |-> r.face_list]
               ELSE [status |-> "raised", error |-> r.err]
  /\ UNCHANGED <<mainVars, fn>>

NextTube == CallTube

SpecTube == InitTube /\ [][NextTube]_vars

\* ================================================================ claims

\* C1: for n >= 1 recemans_sequence(n) returns n integers that start with
\* 0; consecutive terms i-1 and i differ by exactly i and no term is negative.
C1_SequenceShape ==
  (args.n >= 1 /\ pc = "arcs") =>
    /\ Len(seq) = args.n
    /\ seq[1] = 0
    /\ \A k \in 2..Len(seq) :
         /\ Abs(seq[k] - seq[k - 1]) = k - 1
         /\ seq[k] >= 0

C1_Witness ==
  /\ pc = "arcs"
  /\ args.n >= 8
  /\ Len(seq) = args.n
  /\ seq[5] = seq[4] - 4

\* the rule of the returned list: term i is seq[i-1] - i when that is not
\* negative and not among the earlier terms, and seq[i-1] + i otherwise
FollowsRule(s) ==
  \A k \in 2..Len(s) :
    LET cand == s[k - 1] - (k - 1)
    IN IF cand >= 0 /\ ~(\E j \in 1..(k - 1) : s[j] = cand)
       THEN s[k] = cand
       ELSE s[k] = s[k - 1] + (k - 1)

\* C2 as stated: the returned list follows the rule, and its first 8 terms
\* are 0,1,3,2,7,6,13,4.
C2_RuleAndStatedTerms ==
  (args.n >= 1 /\ pc = "arcs") =>
    /\ FollowsRule(seq)
    /\ (args.n >= 8 => SubSeq(seq, 1, 8) = <<0, 1, 3, 2, 7, 6, 13, 4>>)

\* C2 as amended: the returned list follows the rule, and its first 8 terms
\* are 0,1,3,6,2,7,13,20.
C2_RuleAndTerms ==
  (args.n >= 1 /\ pc = "arcs") =>
    /\ FollowsRule(seq)
    /\ (args.n >= 8 => SubSeq(seq, 1, 8) = <<0, 1, 3, 6, 2, 7, 13, 20>>)

C2_Witness ==
  /\ pc = "arcs"
  /\ args.n >= 8
  /\ seq[4] = seq[3] + 3
  /\ seq[5] = 2

ConsecutiveDistinct(points) ==
  \A k \in 1..(Len(points) - 1) : points[k] # points[k + 1]

\* C3: on a curve of m >= 2 points, consecutive ones distinct, with
\* resolution >= 1 and offset >= 0, tube_along_curve returns m*resolution
\* vertices, one ring per curve point, and 2*(m-1)*resolution faces whose
\* indices all lie in 1+offset .. m*resolution+offset.
C3_TubeTopology ==
  (/\ fn.name = "tube_along_curve"
   /\ ret.status # "pending"
   /\ Len(fn.points) >= 2
   /\ ConsecutiveDistinct(fn.points)) =>
    LET m == Len(fn.points)
        n == fn.resolution
        off == fn.vertex_index_offset
    IN /\ ret.status = "returned"
       /\ Len(ret.vertex_list) = m * n
       /\ \A k \in 1..m : \A j \in 1..n :
            /\ ret.vertex_list[(k - 1) * n + j].at = fn.points[k]
            /\ ret.vertex_list[(k - 1) * n + j].slot = j - 1
       /\ Len(ret.face_list) = 2 * (m - 1) * n
       /\ \A f \in 1..Len(ret.face_list) :
            /\ Len(ret.face_list[f]) = 3
            /\ \A c \in 1..3 : ret.face_list[f][c] \in (1 + off)..(m * n + off)

C3_Witness ==
  /\ fn.name = "tube_along_curve"
  /\ ret.status = "returned"
  /\ Len(fn.points) = 3
  /\ ConsecutiveDistinct(fn.points)
  /\ fn.resolution = 2
  /\ fn.vertex_index_offset = 1
  /\ Len(ret.face_list) = 8

\* C4: interpolate_arcs returns resolution * |a1 - a0| points whatever the
\* sign of a1 - a0 and the twist arguments, and none, without raising,
\* when a0 = a1.
C4_ArcSampleCount ==
  (fn.name = "interpolate_arcs" /\ ret.status # "pending") =>
    /\ ret.status = "returned"
    /\ Len(ret.points) = fn.resolution * Abs(fn.a1 - fn.a0)
    /\ (fn.a0 = fn.a1 => ret.points = <<>>)

C4_Witness ==
  /\ fn.name = "interpolate_arcs"
  /\ ret.status = "returned"
  /\ fn.a0 > fn.a1
  /\ fn.resolution = 3
  /\ Len(ret.points) = 3 * (fn.a0 - fn.a1)
  /\ ret.points[1].t = ret.points[1].k

\* C5: a run of main that ends in failure leaves no partially written
\* file: the file was never opened for writing, or it is complete.
C5_NoPartialFile == (pc = "failed") => (~file.exists \/ file.closed)

\* C6: with n < 1 recemans_sequence returns no list and main does not go on
\* to the arcs or the tube.
C6_NonPositiveNRejected ==
  (fn.name = "main" /\ args.n < 1) => pc \in {"seq", "failed"}

\* C7: when two consecutive points of the curve coincide, tube_along_curve
\* raises and returns no mesh, so it returns no non-finite vertex.
C7_CoincidentPointsRaise ==
  (/\ fn.name = "tube_along_curve"
   /\ ret.status # "pending"
   /\ ~ConsecutiveDistinct(fn.points)) =>
    /\ ret.status = "raised"
    /\ (ret.status = "returned" =>
          \A k \in 1..Len(ret.vertex_list) : ret.vertex_list[k].finite)

\* C8: main never reaches the division pi / twist_factor with
\* twist_factor = 0.
C8_NoDivisionByZero == error # "ZeroDivisionError"

\* the number-axis tube has been appended to the mesh
AxisAppended ==
  /\ fn.name = "main"
  /\ args.number_axis
  /\ \/ pc \in {"save", "write", "done"}
     \/ pc = "failed" /\ error = "IOError"

\* C9: once main has appended the number-axis tube, the vertices of the
\* curve's tube come first and those of the axis tube after them; every
\* face of the curve's tube refers to vertices of the curve's tube only,
\* every face of the axis tube to axis vertices only, and every index lies
\* within the combined vertex list.
C9_AxisAppendConsistent ==
  AxisAppended =>
    LET n == args.tube_resolution
        nv == Len(curve) * n
        nf == 2 * (Len(curve) - 1) * n
        V == Len(vertex_list)
    IN /\ V = nv + 2 * n
       /\ Len(face_list) = nf + 2 * n
       /\ \A k \in 1..nv : vertex_list[k].at.kind = "arc"
       /\ \A k \in (nv + 1)..V : vertex_list[k].at.kind = "xyz"
       /\ \A f \in 1..nf : \A c \in 1..3 : face_list[f][c] \in 1..nv
       /\ \A f \in (nf + 1)..Len(face_list) :
            \A c \in 1..3 : face_list[f][c] \in (nv + 1)..V

C9_Witness ==
  /\ pc = "save"
  /\ args.number_axis
  /\ args.tube_resolution = 2
  /\ Len(curve) >= 3
  /\ Len(vertex_list) = (Len(curve) + 2) * 2
  /\ Len(face_list) = 2 * (Len(curve) - 1) * 2 + 4

Triangle(n) == (n * (n - 1)) \div 2

\* the tube along the curve has been built
TubeBuilt ==
  \/ pc \in {"axis", "save", "write", "done"}
  \/ pc = "failed" /\ error \in {"AttributeError", "IOError"}

\* C10: for n >= 1 the segments 1..i-1 give the curve arc_resolution *
\* (1 + ... + (i-1)) points, the whole curve has arc_resolution * n*(n-1)/2
\* points, and the tube along it is built exactly when that is at least 2.
C10_CurveLength ==
  (fn.name = "main" /\ args.n >= 1) =>
    /\ (pc = "arcs" => Len(curve) = args.arc_resolution * Triangle(i))
    /\ (pc = "tube" =>
          Len(curve) = args.arc_resolution * Triangle(args.n))
    /\ (TubeBuilt =>
          /\ Len(curve) = args.arc_resolution * Triangle(args.n)
          /\ args.arc_resolution * Triangle(args.n) >= 2)
    /\ (error = "IndexError" =>
          /\ Len(curve) = args.arc_resolution * Triangle(args.n)
          /\ args.arc_resolution * Triangle(args.n) < 2)
    /\ (pc = "tube" /\ (args.n = 1 \/ (args.n = 2 /\ args.arc_resolution = 1))
          => Len(curve) < 2)

C10_Witness ==
  /\ pc = "failed"
  /\ error = "IndexError"
  /\ args.n = 2
  /\ args.arc_resolution = 1
  /\ Len(curve) = 1

====
